---- MODULE Spec2Model ----
(***************************************************************************)
(* Model of argmap (src/src/lib.rs): ArgMap::boolean configures the set    *)
(* of boolean option names, ArgMap::parse scans an iterator of string      *)
(* tokens into (args, argv).                                               *)
(*                                                                         *)
(* A Rust String is modelled as the sequence of its UTF-8 bytes, one       *)
(* one-character TLA+ string per ASCII byte and "C3","A9" for the two      *)
(* bytes of U+00E9.  Rust's str slicing s[a..b] uses byte offsets and      *)
(* panics when an offset is not a character boundary; Slice/SliceOK model  *)
(* the slice and its boundary check.  Option<String> is a sequence of      *)
(* zero or one strings.                                                    *)
(***************************************************************************)
EXTENDS Integers, Sequences, FiniteSets, TLC

\* Longest token sequence the iterator yields in one parse call.
MaxLen == 4

VARIABLES
  boolean,   \* ArgMap.boolean: HashSet<String>
  pc,        \* "config" | "parse" | "done" | "panic"
  input,     \* the items the `for x in input` loop has taken so far
  args,      \* let mut args: List
  argv,      \* let mut argv: Map
  key,       \* let mut key: Option<String>
  dashdash,  \* let mut dashdash: bool
  names,     \* history: the names handed to `booleans` so far, in order
  earlier    \* history: how the previous parse call on this instance ended
             \* (empty before the second call)

vars == <<boolean, pc, input, args, argv, key, dashdash, names, earlier>>

---------------------------------------------------------------------------
\* Bytes and characters

Digits == {"0", "1", "2", "3", "4", "5", "6", "7", "8", "9"}

AsciiLetters ==
  {"a", "b", "c", "d", "e", "f", "g", "h", "i", "j", "k", "l", "m",
   "n", "o", "p", "q", "r", "s", "t", "u", "v", "w", "x", "y", "z"}

\* UTF-8 continuation bytes (10xxxxxx) and lead bytes of alphabetic
\* two-byte characters that occur in the token universe.
ContBytes == {"A9"}
AlphaLeadBytes == {"C3"}

\* str::is_char_boundary at byte offset i (0-based).
IsCharBoundary(s, i) ==
  \/ i = 0
  \/ i = Len(s)
  \/ (0 < i /\ i < Len(s) /\ s[i + 1] \notin ContBytes)

\* &s[a..b] succeeds (does not panic).
SliceOK(s, a, b) ==
  a <= b /\ b <= Len(s) /\ IsCharBoundary(s, a) /\ IsCharBoundary(s, b)

\* &s[a..b], byte offsets, 0-based, b exclusive.
Slice(s, a, b) == SubSeq(s, a + 1, b)

\* str::find of a one-byte pattern: set of 0-based offsets, least is the hit.
FindAll(s, c) == {i \in 0 .. Len(s) - 1 : s[i + 1] = c}
HasEq(s) == FindAll(s, "=") # {}
Find(s, c) == CHOOSE i \in FindAll(s, c) : \A j \in FindAll(s, c) : i <= j

StartsWith(s, p) == Len(s) >= Len(p) /\ SubSeq(s, 1, Len(p)) = p

is_num(s) == IF Len(s) = 0 THEN FALSE ELSE s[1] \in Digits

short_break(s) ==
  IF Len(s) = 0 THEN FALSE ELSE ~(s[1] \in AsciiLetters \cup AlphaLeadBytes)

---------------------------------------------------------------------------
\* Map helpers

EmptyMap == [k \in {} |-> <<>>]

insert(m, k, v) == [x \in DOMAIN m \cup {k} |-> IF x = k THEN v ELSE m[x]]

set(m, k, value) ==
  IF k \in DOMAIN m THEN [m EXCEPT ![k] = Append(@, value)]
  ELSE insert(m, k, <<value>>)

set_bool(m, k) == IF k \notin DOMAIN m THEN insert(m, k, <<>>) ELSE m

---------------------------------------------------------------------------
\* The body of `for x in input { ... }`, on the locals of parse collected
\* in a record st = [args, argv, key, dashdash, panic]; panic is set when a
\* slice of the token is taken off a character boundary.

Locals(a, m, k, d) == [args |-> a, argv |-> m, key |-> k, dashdash |-> d, panic |-> FALSE]

\* Variant of AfterDashDash that lets a key still pending take the token as
\* its value.
AfterDashDash_value(st, s) ==
  IF st.key # <<>>
  THEN [st EXCEPT !.argv = set(@, st.key[1], s), !.key = <<>>]
  ELSE [st EXCEPT !.args = Append(@, s)]

\* Variant of AfterDashDash that swallows a repeated terminator.
AfterDashDash_skip(st, s) ==
  IF s = <<"-", "-">> THEN st ELSE [st EXCEPT !.args = Append(@, s)]

\* if dashdash { args.push(s); continue }
AfterDashDash(st, s) == [st EXCEPT !.args = Append(@, s)]

\* if s == "--" { dashdash = true }
Terminator(st) == [st EXCEPT !.dashdash = TRUE]

\* Variant of LoneDash that puts `-` at the front of the positional list.
LoneDash_front(st, s) == [st EXCEPT !.args = <<s>> \o @]

\* Variant of LoneDash that treats `-` as an ordinary token: a pending key
\* takes it as its value.
LoneDash_plain(st, s) ==
  IF st.key # <<>>
  THEN [st EXCEPT !.argv = set(@, st.key[1], s), !.key = <<>>]
  ELSE [st EXCEPT !.args = Append(@, s)]

\* else if s == "-" { args.push(s) }
LoneDash(st, s) == [st EXCEPT !.args = Append(@, s)]

\* if let Some(k) = &key { argv.insert(k.clone(), vec![]); key = None }
FlushLong(st) ==
  IF st.key # <<>>
  THEN [st EXCEPT !.argv = insert(@, st.key[1], <<>>), !.key = <<>>]
  ELSE st

\* Variant of LongKey that never consults the boolean set.
LongKey_noBool(st, k, bool) ==
  IF HasEq(k)
  THEN [st EXCEPT !.argv = set(@, Slice(k, 0, Find(k, "=")),
                                  Slice(k, Find(k, "=") + 1, Len(k)))]
  ELSE [st EXCEPT !.key = <<k>>]

\* let k = s[2..]; `=` split, boolean, or pending
LongKey(st, k, bool) ==
  IF HasEq(k)
  THEN [st EXCEPT !.argv = set(@, Slice(k, 0, Find(k, "=")),
                                  Slice(k, Find(k, "=") + 1, Len(k)))]
  ELSE IF k \in bool
  THEN [st EXCEPT !.argv = set_bool(@, k)]
  ELSE [st EXCEPT !.key = <<k>>]

\* Variant of LongOpt that strips one dash only.
LongOpt_oneDash(st, s, bool) == LongKey(FlushLong(st), Slice(s, 1, Len(s)), bool)

\* else if s.starts_with("--") { ... }
LongOpt(st, s, bool) == LongKey(FlushLong(st), Slice(s, 2, Len(s)), bool)

\* Variant of NumericValue that stores the token without its dash.
NumericValue_noDash(st, s) ==
  [st EXCEPT !.argv = set(@, st.key[1], Slice(s, 1, Len(s))), !.key = <<>>]

\* if is_num(&s[1..2]) { set(&mut argv, &k, &s.to_string()); key = None; continue }
NumericValue(st, s) == [st EXCEPT !.argv = set(@, st.key[1], s), !.key = <<>>]

\* Variant of FlushShort that registers the key but leaves it pending.
FlushShort_keep(st) ==
  [st EXCEPT !.argv = insert(set_bool(@, st.key[1]), st.key[1], <<>>)]

\* set_bool(&mut argv, &k); argv.insert(k.clone(), vec![]); key = None
FlushShort(st) ==
  [st EXCEPT !.argv = insert(set_bool(@, st.key[1]), st.key[1], <<>>),
             !.key = <<>>]

\* if let Some(i) = s.find("=") { set(argv, s[1..i], s[i+1..]) }
ShortEq(st, s) ==
  [st EXCEPT !.argv = set(@, Slice(s, 1, Find(s, "=")),
                             Slice(s, Find(s, "=") + 1, Len(s)))]

\* Variant of ClusterChar that drops the key left pending by the previous
\* character instead of registering it.
ClusterChar_noFlush(st, k, bool) ==
  IF k \in bool
  THEN [st EXCEPT !.argv = set_bool(@, k), !.key = <<>>]
  ELSE [st EXCEPT !.key = <<k>>]

\* One character of the cluster that is not a break: flush the key left
\* pending by the previous character, then register k or leave it pending.
ClusterChar(st, k, bool) ==
  LET flushed == IF st.key # <<>>
                 THEN [st EXCEPT !.argv = set_bool(@, st.key[1]), !.key = <<>>]
                 ELSE st
  IN IF k \in bool
     THEN [flushed EXCEPT !.argv = set_bool(@, k)]
     ELSE [flushed EXCEPT !.key = <<k>>]

\* Variant of ClusterBreak that gives the pending key the one character only.
ClusterBreak_oneChar(st, s, i) ==
  [st EXCEPT !.argv = set(@, st.key[1], Slice(s, i, i + 1)), !.key = <<>>]

\* set(&mut argv, sk, &s[i..].to_string()); key = None; jump = true; break
ClusterBreak(st, s, i) ==
  [st EXCEPT !.argv = set(@, st.key[1], Slice(s, i, Len(s))), !.key = <<>>]

\* for i in 1..s.len()-1 { ... }, from index i on; yields the locals and jump.
RECURSIVE ClusterLoop(_, _, _, _)
ClusterLoop(st, s, i, bool) ==
  IF i >= Len(s) - 1 THEN [st |-> st, jump |-> FALSE]
  ELSE IF ~SliceOK(s, i, i + 1)
  THEN [st |-> [st EXCEPT !.panic = TRUE], jump |-> FALSE]
  ELSE LET k == Slice(s, i, i + 1) IN
       IF st.key # <<>> /\ (is_num(k) \/ short_break(k))
       THEN [st |-> ClusterBreak(st, s, i), jump |-> TRUE]
       ELSE ClusterLoop(ClusterChar(st, k, bool), s, i + 1, bool)

\* let k = s[s.len()-1..]; the last character of the cluster
ClusterLast(st, k, bool) ==
  IF st.key # <<>>
  THEN IF k \in bool
       THEN [st EXCEPT !.argv = set_bool(set_bool(@, st.key[1]), k)]
       ELSE IF is_num(k) \/ short_break(k)
       THEN [st EXCEPT !.argv = set(@, st.key[1], k), !.key = <<>>]
       ELSE [st EXCEPT !.argv = set_bool(@, st.key[1]), !.key = <<k>>]
  ELSE IF k \in bool
       THEN [st EXCEPT !.argv = set_bool(@, k)]
       ELSE [st EXCEPT !.key = <<k>>]

\* the else branch of `if let Some(i) = s.find("=")`
Cluster(st, s, bool) ==
  LET l == ClusterLoop(st, s, 1, bool) IN
  IF l.st.panic \/ l.jump THEN l.st
  ELSE IF ~SliceOK(s, Len(s) - 1, Len(s)) THEN [l.st EXCEPT !.panic = TRUE]
  ELSE ClusterLast(l.st, Slice(s, Len(s) - 1, Len(s)), bool)

\* the token after the pending key, if any, has been dealt with
ShortScan(st, s, bool) ==
  IF HasEq(s) THEN ShortEq(st, s) ELSE Cluster(st, s, bool)

\* else if s.starts_with("-") { ... }
ShortOpt(st, s, bool) ==
  IF st.key # <<>>
  THEN IF ~SliceOK(s, 1, 2) THEN [st EXCEPT !.panic = TRUE]
       ELSE IF is_num(Slice(s, 1, 2)) THEN NumericValue(st, s)
       ELSE ShortScan(FlushShort(st), s, bool)
  ELSE ShortScan(st, s, bool)

\* Variant of Plain that also keeps a consumed value as a positional.
Plain_both(st, s) ==
  IF st.key # <<>>
  THEN [st EXCEPT !.argv = set(@, st.key[1], s), !.key = <<>>,
                  !.args = Append(@, s)]
  ELSE [st EXCEPT !.args = Append(@, s)]

\* else if let Some(k) = key { set(argv, k, s); key = None } else { args.push(s) }
Plain(st, s) ==
  IF st.key # <<>>
  THEN [st EXCEPT !.argv = set(@, st.key[1], s), !.key = <<>>]
  ELSE [st EXCEPT !.args = Append(@, s)]

\* One iteration of the loop on token s.
Step(st, s, bool) ==
  IF st.dashdash THEN AfterDashDash(st, s)
  ELSE IF s = <<"-", "-">> THEN Terminator(st)
  ELSE IF s = <<"-">> THEN LoneDash(st, s)
  ELSE IF StartsWith(s, <<"-", "-">>) THEN LongOpt(st, s, bool)
  ELSE IF StartsWith(s, <<"-">>) THEN ShortOpt(st, s, bool)
  ELSE Plain(st, s)

\* Variant of FinalFlush that returns the map without the pending key.
FinalFlush_skip(m, k) == m

\* if let Some(k) = key { set_bool(&mut argv, &k) }
FinalFlush(m, k) == IF k # <<>> THEN set_bool(m, k[1]) ELSE m

---------------------------------------------------------------------------
\* Inputs

\* Names the caller may pass to ArgMap::boolean.
BoolNames == {<<"q">>, <<"5">>}

\* Tokens the input iterator may yield.
Tokens ==
  { <<"h", "i">>,                      \* hi
    <<"-", "-">>,                      \* --
    <<"-">>,                           \* -
    <<"-", "-", "q">>,                 \* --q
    <<"-", "-", "q", "=", "v">>,       \* --q=v
    <<"-", "q">>,                      \* -q
    <<"-", "5">>,                      \* -5
    <<"-", "n", "=", "v">>,            \* -n=v
    <<"-", "x", "v", "f">>,            \* -xvf
    <<"-", "n", "@", "4">>,            \* -n@4
    <<"-", "C3", "A9">> }              \* -é (U+00E9, two bytes)

---------------------------------------------------------------------------
\* State machine

Init ==
  /\ boolean = {}
  /\ pc = "config"
  /\ input = <<>>
  /\ args = <<>>
  /\ argv = EmptyMap
  /\ key = <<>>
  /\ dashdash = FALSE
  /\ names = <<>>
  /\ earlier = <<>>

\* Variant of boolean_insert that forgets the names registered before.
boolean_replace(b, name) == {name}

\* self.boolean.insert(key.to_string())
boolean_insert(b, name) == b \cup {name}

\* ArgMap::boolean(key)
Boolean(name) ==
  /\ pc = "config"
  /\ boolean' = boolean_insert(boolean, name)
  /\ UNCHANGED <<pc, input, args, argv, key, dashdash, names, earlier>>

\* Entry of ArgMap::parse: the four locals are created.
ParseCall ==
  /\ pc = "config"
  /\ pc' = "parse"
  /\ input' = <<>>
  /\ args' = <<>>
  /\ argv' = EmptyMap
  /\ key' = <<>>
  /\ dashdash' = FALSE
  /\ UNCHANGED <<boolean, names, earlier>>

\* One iteration of `for x in input` on the next item s.
Token(s) ==
  /\ pc = "parse"
  /\ Len(input) < MaxLen
  /\ input' = Append(input, s)
  /\ LET r == Step(Locals(args, argv, key, dashdash), s, boolean) IN
       IF r.panic
       THEN /\ pc' = "panic"
            /\ UNCHANGED <<args, argv, key, dashdash>>
       ELSE /\ pc' = "parse"
            /\ args' = r.args
            /\ argv' = r.argv
            /\ key' = r.key
            /\ dashdash' = r.dashdash
  /\ UNCHANGED <<boolean, names, earlier>>

\* The iterator is exhausted: flush the pending key and return (args, argv).
EndOfInput ==
  /\ pc = "parse"
  /\ pc' = "done"
  /\ argv' = FinalFlush(argv, key)
  /\ UNCHANGED <<boolean, input, args, key, dashdash, names, earlier>>

Next ==
  \/ \E name \in BoolNames : Boolean(name)
  \/ ParseCall
  \/ \E s \in Tokens : Token(s)
  \/ EndOfInput

Spec == Init /\ [][Next]_vars

---------------------------------------------------------------------------
\* parse as a function of its arguments: the loop run from fresh locals over
\* the whole token sequence, then the final flush.

RECURSIVE ParseLoop(_, _, _)
ParseLoop(st, tokens, bool) ==
  IF tokens = <<>> \/ st.panic THEN st
  ELSE ParseLoop(Step(st, Head(tokens), bool), Tail(tokens), bool)

ParseAll(tokens, bool) ==
  LET st == ParseLoop(Locals(<<>>, [k \in {} |-> <<>>], <<>>, FALSE), tokens, bool)
  IN [panic |-> st.panic, args |-> st.args, argv |-> FinalFlush(st.argv, st.key)]

---------------------------------------------------------------------------
\* Bulk registration.  `booleans` is called by tests/parse.rs but is not
\* defined in src/src/lib.rs; it is modelled from the description of the
\* configuration contract: every name of the list is registered.

\* Longest list of names handed to `booleans`, over all its calls.
MaxNames == 2

NameLists == UNION {[1 .. n -> BoolNames] : n \in 1 .. MaxNames}

\* ArgMap::booleans(list)
Booleans(list) ==
  /\ pc = "config"
  /\ Len(names) + Len(list) <= MaxNames
  /\ boolean' = boolean \cup {list[i] : i \in 1 .. Len(list)}
  /\ names' = names \o list
  /\ UNCHANGED <<pc, input, args, argv, key, dashdash, earlier>>

\* Tokens of the bulk-registration runs.
TokensBulk ==
  { <<"h", "i">>, <<"-", "q">>, <<"-", "5">>, <<"-", "-", "q">>,
    <<"-", "x", "q">> }

NextBulk ==
  \/ \E list \in NameLists : Booleans(list)
  \/ ParseCall
  \/ \E s \in TokensBulk : Token(s)
  \/ EndOfInput

\* An instance configured with `booleans` only.
SpecBulk == Init /\ [][NextBulk]_vars

---------------------------------------------------------------------------
\* A second and later parse call on the same instance.

\* Variant of ParseAgain that carries the pending key over into the new call.
ParseAgain_keepKey ==
  /\ pc = "done"
  /\ pc' = "parse"
  /\ input' = <<>>
  /\ args' = <<>>
  /\ argv' = [k \in {} |-> <<>>]
  /\ dashdash' = FALSE
  /\ earlier' = <<[key |-> key, dashdash |-> dashdash]>>
  /\ UNCHANGED <<boolean, names, key>>

\* Entry of ArgMap::parse after an earlier call has returned: the four
\* locals are created anew.
ParseAgain ==
  /\ pc = "done"
  /\ pc' = "parse"
  /\ input' = <<>>
  /\ args' = <<>>
  /\ argv' = [k \in {} |-> <<>>]
  /\ key' = <<>>
  /\ dashdash' = FALSE
  /\ earlier' = <<[key |-> key, dashdash |-> dashdash]>>
  /\ UNCHANGED <<boolean, names>>

\* Tokens of the runs with repeated parse calls.
TokensAgain ==
  { <<"h", "i">>, <<"-", "-">>, <<"-", "q">>, <<"-", "-", "q">>, <<"-", "5">> }

NextAgain ==
  \/ \E name \in BoolNames : Boolean(name)
  \/ ParseCall
  \/ \E s \in TokensAgain : Token(s)
  \/ EndOfInput
  \/ ParseAgain

SpecAgain == Init /\ [][NextAgain]_vars

\* Tokens of the runs about short clusters and dashes inside a token.
TokensCluster ==
  { <<"h", "i">>,                      \* hi
    <<"-", "n">>,                      \* -n
    <<"-", "x", "q">>,                 \* -xq
    <<"-", "n", "5">>,                 \* -n5
    <<"-", "x", "n", "5", "6">>,       \* -xn56
    <<"-", "w", "-", "5">>,            \* -w-5
    <<"-", "q", "r", "@", "4">>,       \* -qr@4
    <<"-", "q", "-", "x">>,            \* -q-x
    <<"-", "-", "-", "x">> }           \* ---x

NextCluster ==
  \/ \E name \in BoolNames : Boolean(name)
  \/ ParseCall
  \/ \E s \in TokensCluster : Token(s)
  \/ EndOfInput

SpecCluster == Init /\ [][NextCluster]_vars

---------------------------------------------------------------------------
\* Vocabulary of the properties

Dash == <<"-">>
DashDash == <<"-", "-">>

Last(seq) == seq[Len(seq)]
IsPrefix(a, b) == Len(a) <= Len(b) /\ SubSeq(b, 1, Len(a)) = a
Vals(m, k) == IF k \in DOMAIN m THEN m[k] ELSE <<>>

\* A step that takes one token from the iterator and finishes its iteration
\* of the loop (a step that panics instead is the subject of C1 alone).
TokenStep == pc = "parse" /\ pc' = "parse" /\ input' # input

IsPlain(s) == ~StartsWith(s, Dash)
\* --name with a non-empty name and no `=`
IsLongNoEq(s) == StartsWith(s, DashDash) /\ Len(s) > 2 /\ ~HasEq(s)
\* --name=value
IsLongEq(s) == StartsWith(s, DashDash) /\ HasEq(s)
LongName(s) == Slice(s, 2, Len(s))
\* a single-dash token whose first character after the dash is a digit
IsNumericLead(s) == Len(s) >= 2 /\ s[1] = "-" /\ s[2] \in Digits
\* -c1c2...cn with n >= 2, every ci an ASCII letter
IsAlphaCluster(s) ==
  Len(s) >= 3 /\ s[1] = "-" /\ \A i \in 2 .. Len(s) : s[i] \in AsciiLetters
\* -c, one character
IsLoneShort(s) == Len(s) = 2 /\ s[1] = "-" /\ s # DashDash /\ s[2] # "="

---------------------------------------------------------------------------
\* C1: parse is total: for every token sequence and every boolean-name set
\* it returns a result and never panics.  Stated as: the parse never
\* reaches the panicked state.
C1_ParseNeverPanics == pc # "panic"

\* C2: once the first `--` has been consumed the dash-dash flag stays set,
\* and every later token, whatever its shape, is appended unchanged to the
\* positional list (so in input order) and leaves the option map alone.
C2_TerminatorAbsorbs ==
  [][(pc = "parse" /\ dashdash) =>
       /\ dashdash'
       /\ (input' # input =>
             /\ pc' = "parse"
             /\ args' = Append(args, Last(input'))
             /\ argv' = argv)]_vars

\* Two option-shaped tokens, one of them a second `--`, went to the
\* positional list after the terminator.
C2_Witness ==
  /\ pc = "parse" /\ dashdash
  /\ input = <<DashDash, DashDash, <<"-", "-", "q", "=", "v">> >>
  /\ args = <<DashDash, <<"-", "-", "q", "=", "v">> >>

\* C3: a key once present in the option map stays present and its value
\* sequence only grows by appending: after every step of a parse each key's
\* values extend what they were before the step.
C3_ValuesOnlyGrow ==
  [][pc = "parse" =>
       \A k \in DOMAIN argv : k \in DOMAIN argv' /\ IsPrefix(argv[k], argv'[k])]_vars

---------------------------------------------------------------------------
\* C4: a name of the boolean set announced as `--name` (no `=`) or as a lone
\* short option `-n` becomes a key of the option map and leaves no key
\* pending, and the token that follows is never appended to that name's
\* values: a plain token that follows becomes positional.  A token is an
\* announcement when it is scanned as an option: before the terminator, and
\* not taken whole as the value of a pending key by the numeric-lead rule.
C4_BooleanTakesNoValue ==
  [][TokenStep /\ ~dashdash =>
       LET s == Last(input') IN
       /\ (IsLongNoEq(s) /\ LongName(s) \in boolean) =>
            (LongName(s) \in DOMAIN argv' /\ key' = <<>> /\ args' = args
             /\ IsPrefix(argv'[LongName(s)], Vals(argv, LongName(s))))
       /\ (IsLoneShort(s) /\ <<s[2]>> \in boolean
           /\ ~(key # <<>> /\ IsNumericLead(s))) =>
            (<<s[2]>> \in DOMAIN argv' /\ key' = <<>> /\ args' = args
             /\ IsPrefix(argv'[<<s[2]>>], Vals(argv, <<s[2]>>)))
       /\ (input # <<>>
           /\ \/ (IsLongNoEq(Last(input)) /\ LongName(Last(input)) \in boolean)
              \/ (IsLoneShort(Last(input)) /\ <<Last(input)[2]>> \in boolean)) =>
            LET name == IF IsLoneShort(Last(input)) THEN <<Last(input)[2]>>
                        ELSE LongName(Last(input)) IN
            /\ Vals(argv', name) # Append(Vals(argv, name), s)
            /\ (IsPlain(s) => args' = Append(args, s) /\ argv' = argv)]_vars

\* `--q hi` and `-5 hi` with q and 5 boolean: both names are keys without
\* values and both plain tokens are positional.
C4_Witness ==
  /\ pc = "parse"
  /\ boolean = {<<"q">>, <<"5">>}
  /\ input = << <<"-", "-", "q">>, <<"h", "i">>, <<"-", "5">>, <<"h", "i">> >>
  /\ args = << <<"h", "i">>, <<"h", "i">> >>
  /\ DOMAIN argv = {<<"q">>, <<"5">>}
  /\ argv[<<"q">>] = <<>> /\ argv[<<"5">>] = <<>>

\* C5: for a name outside the boolean set, `--name` followed by a plain token
\* x before any terminator appends x to name's values and does not add x to
\* the positional list.
C5_LongTakesNextPlain ==
  [][(TokenStep /\ ~dashdash /\ input # <<>> /\ IsLongNoEq(Last(input))
      /\ LongName(Last(input)) \notin boolean /\ IsPlain(Last(input'))) =>
       LET name == LongName(Last(input)) IN
       /\ name \in DOMAIN argv'
       /\ argv'[name] = Append(Vals(argv, name), Last(input'))
       /\ args' = args]_vars

\* `--q=v --q hi` with q not boolean: hi is the second value of q.
C5_Witness ==
  /\ pc = "parse"
  /\ <<"q">> \notin boolean
  /\ input = << <<"-", "-", "q", "=", "v">>, <<"-", "-", "q">>, <<"h", "i">> >>
  /\ args = <<>>
  /\ argv[<<"q">>] = << <<"v">>, <<"h", "i">> >>

\* C6: `--name=value` before the terminator always appends value (the text
\* after the first `=`) to key name (the text between `--` and the first
\* `=`) and leaves no pending key, whether or not name is boolean.
C6_LongEqAppends ==
  [][(TokenStep /\ ~dashdash /\ IsLongEq(Last(input'))) =>
       LET k == LongName(Last(input'))
           name == Slice(k, 0, Find(k, "="))
           value == Slice(k, Find(k, "=") + 1, Len(k)) IN
       /\ name \in DOMAIN argv'
       /\ argv'[name] = Append(Vals(argv, name), value)
       /\ key' = <<>>]_vars

\* C7: a lone `-` is appended to the positional list in every parser state
\* (key pending or not, terminator seen or not) and never enters the option
\* map as a key or a value.
C7_LoneDashPositional ==
  [][(TokenStep /\ Last(input') = Dash) =>
       (args' = Append(args, Dash) /\ argv' = argv)]_vars

\* `-q -` with q not boolean: `-` is positional while q is still pending.
C7_Witness ==
  /\ pc = "parse"
  /\ input = << <<"-", "q">>, Dash >>
  /\ key = << <<"q">> >>
  /\ args = <<Dash>>
  /\ argv = EmptyMap

\* C8: numeric-lead rule: with a key pending, a single-dash token whose first
\* character after the dash is a digit is appended whole, dash included, to
\* the pending key's values; the pending slot is cleared and no character of
\* the token becomes a key.
C8_NumericLeadIsValue ==
  [][(TokenStep /\ ~dashdash /\ key # <<>> /\ IsNumericLead(Last(input'))) =>
       /\ DOMAIN argv' = DOMAIN argv \cup {key[1]}
       /\ argv'[key[1]] = Append(Vals(argv, key[1]), Last(input'))
       /\ \A k \in DOMAIN argv : k # key[1] => argv'[k] = argv[k]
       /\ key' = <<>>
       /\ args' = args]_vars

\* `--q -5` with q not boolean: q holds the value -5 and 5 is not a key.
C8_Witness ==
  /\ pc = "parse"
  /\ input = << <<"-", "-", "q">>, <<"-", "5">> >>
  /\ key = <<>>
  /\ DOMAIN argv = {<<"q">>}
  /\ argv[<<"q">>] = << <<"-", "5">> >>

---------------------------------------------------------------------------
\* The cluster part shared by both readings of C9: with no boolean names, a
\* cluster -c1...cn of letters scanned before the terminator makes each of
\* c1..c(n-1) a key that gains no value and leaves cn pending.
ClusterRegisters ==
  (TokenStep /\ ~dashdash /\ boolean = {} /\ IsAlphaCluster(Last(input'))) =>
    LET s == Last(input') IN
    /\ \A i \in 2 .. Len(s) - 1 :
         /\ <<s[i]>> \in DOMAIN argv'
         /\ IsPrefix(argv'[<<s[i]>>], Vals(argv, <<s[i]>>))
    /\ key' = <<s[Len(s)]>>
    /\ args' = args

\* The step after such a cluster, taken before the terminator was seen.
AfterCluster ==
  TokenStep /\ ~dashdash /\ boolean = {} /\ input # <<>>
  /\ IsAlphaCluster(Last(input))

\* C9: for a short cluster -c1c2...cn of alphabetic characters, with an empty
\* boolean set and no `=`, c1..c(n-1) become keys that gain no value and cn
\* becomes the pending key: it receives the next token as its value when
\* that token is plain, and is flushed as boolean-presence otherwise (it is
\* a key that gained no value; after a terminator, at the latest when the
\* input ends).
C9_ClusterLastTakesPlainOnly ==
  [][/\ ClusterRegisters
     /\ AfterCluster =>
          LET cn == <<Last(input)[Len(Last(input))]>>
              s == Last(input') IN
          IF IsPlain(s)
          THEN cn \in DOMAIN argv' /\ argv'[cn] = Append(Vals(argv, cn), s)
          ELSE IF s = DashDash
          THEN argv' = argv
          ELSE cn \in DOMAIN argv' /\ IsPrefix(argv'[cn], Vals(argv, cn))]_vars

\* C9 as amended: cn receives the next token as its value when that token is
\* plain or is a single-dash token led by a digit; a lone `-` and the
\* terminator leave it pending and the map unchanged; every other option
\* token registers it as a key without giving it the token as a value; the
\* end of the input registers it as a key.
C9_ClusterLastPending ==
  [][/\ ClusterRegisters
     /\ AfterCluster =>
          LET cn == <<Last(input)[Len(Last(input))]>>
              s == Last(input') IN
          IF IsPlain(s) \/ IsNumericLead(s)
          THEN /\ cn \in DOMAIN argv'
               /\ argv'[cn] = Append(Vals(argv, cn), s)
               /\ key' = <<>>
          ELSE IF s = Dash \/ s = DashDash
          THEN key' = <<cn>> /\ argv' = argv
          ELSE /\ cn \in DOMAIN argv'
               /\ argv'[cn] # Append(Vals(argv, cn), s)
     /\ (pc = "parse" /\ pc' = "done" /\ boolean = {} /\ ~dashdash
         /\ input # <<>> /\ IsAlphaCluster(Last(input))) =>
          <<Last(input)[Len(Last(input))]>> \in DOMAIN argv']_vars

\* `-xvf hi -xvf -5` with no boolean names: x and v are keys without values,
\* f took hi and then -5.
C9_Witness ==
  /\ pc = "parse"
  /\ boolean = {}
  /\ input = << <<"-", "x", "v", "f">>, <<"h", "i">>,
                <<"-", "x", "v", "f">>, <<"-", "5">> >>
  /\ args = <<>>
  /\ key = <<>>
  /\ DOMAIN argv = {<<"x">>, <<"v">>, <<"f">>}
  /\ argv[<<"x">>] = <<>> /\ argv[<<"v">>] = <<>>
  /\ argv[<<"f">>] = << <<"h", "i">>, <<"-", "5">> >>

---------------------------------------------------------------------------
\* Occurrences of token x in a sequence of tokens.
Count(x, seq) == Cardinality({i \in 1 .. Len(seq) : seq[i] = x})

\* Occurrences of x among the values of the keys ks of map m.
RECURSIVE CountInMap(_, _, _)
CountInMap(x, m, ks) ==
  IF ks = {} THEN 0
  ELSE LET k == CHOOSE e \in ks : TRUE IN
       Count(x, m[k]) + CountInMap(x, m, ks \ {k})

\* C10: every input token that does not start with `-` ends up in the final
\* result: it occurs in the positional list or among the values of the
\* returned option map at least as often as it occurs in the input.
C10_NoPlainTokenDropped ==
  pc = "done" =>
    \A x \in {s \in Tokens : IsPlain(s)} :
      Count(x, input) <= Count(x, args) + CountInMap(x, argv, DOMAIN argv)

---------------------------------------------------------------------------
\* a is a subsequence of b: a is b with some elements left out.
RECURSIVE IsSubseq(_, _)
IsSubseq(a, b) ==
  IF a = <<>> THEN TRUE
  ELSE IF b = <<>> THEN FALSE
  ELSE IF Head(a) = Head(b) THEN IsSubseq(Tail(a), Tail(b))
  ELSE IsSubseq(a, Tail(b))

\* C11: the positional list is a subsequence of the input: every step of a
\* parse leaves it alone or appends the token just taken, so tokens keep
\* their input order, each as often as it was classified positional.
C11_PositionalSubsequence ==
  /\ [](IsSubseq(args, input))
  /\ [][pc = "parse" =>
          \/ args' = args
          \/ (input' # input /\ args' = Append(args, Last(input')))]_vars

\* `hi -q hi -` with q not boolean: the second hi is q's value, so the
\* positional list is hi, `-`.
C11_Witness ==
  /\ pc = "parse"
  /\ input = << <<"h", "i">>, <<"-", "q">>, <<"h", "i">>, Dash >>
  /\ args = << <<"h", "i">>, Dash >>

---------------------------------------------------------------------------
\* The boolean set that registering the names of a list one at a time with
\* `boolean` builds from b.
RECURSIVE SingleRegs(_, _)
SingleRegs(b, list) ==
  IF list = <<>> THEN b
  ELSE SingleRegs(boolean_insert(b, Head(list)), Tail(list))

C13_CallsIndependent ==
  /\ [][(pc = "parse" \/ pc = "done") => (boolean' = boolean)]_vars
  /\ [](pc = "done" =>
          LET r == ParseAll(input, boolean) IN
          ~r.panic /\ args = r.args /\ argv = r.argv)

\* A second call returned {q: [hi]} for `-q hi` after a first call that
\* ended after a terminator with a key pending.
C13_Witness ==
  /\ pc = "done"
  /\ earlier # <<>> /\ earlier[1].key # <<>> /\ earlier[1].dashdash
  /\ input = << <<"-", "q">>, <<"h", "i">> >>
  /\ args = <<>>
  /\ DOMAIN argv = {<<"q">>} /\ argv[<<"q">>] = << <<"h", "i">> >>

---------------------------------------------------------------------------
\* Token s names key k again: as the long option --k, or as a character of
\* a single-dash token.
Reannounces(s, k) ==
  \/ (IsLongNoEq(s) /\ LongName(s) = k)
  \/ (StartsWith(s, Dash) /\ ~StartsWith(s, DashDash) /\ Len(k) = 1
      /\ \E i \in 2 .. Len(s) : s[i] = k[1])

\* The key pending before the step has been flushed or has taken a value:
\* it is a key of the map, and if it is pending again the token named it.
Resolved ==
  /\ key[1] \in DOMAIN argv'
  /\ (key' # key \/ Reannounces(Last(input'), key[1]))

\* C14: the pending-key register is resolved within one token: a key pending
\* when a token starts being processed is no longer that same open key once
\* the token has been processed, for every kind of token, a lone `-` and the
\* terminator `--` included.
C14_PendingResolvedByNextToken ==
  [][(TokenStep /\ key # <<>>) => Resolved]_vars

\* C14 as amended: a lone `-`, the terminator and every token after the
\* terminator leave the same key pending and the option map unchanged; every
\* other token resolves the pending key, and the end of the input flushes a
\* key that is still pending.
C14_PendingResolvedUnlessDash ==
  [][/\ (TokenStep /\ key # <<>>) =>
          IF dashdash \/ Last(input') = Dash \/ Last(input') = DashDash
          THEN key' = key /\ argv' = argv
          ELSE Resolved
     /\ (pc = "parse" /\ pc' = "done" /\ key # <<>>) =>
          key[1] \in DOMAIN argv']_vars

\* `-q - hi` with q not boolean: q stayed pending across the `-` and then
\* took hi.
C14_Witness ==
  /\ pc = "parse"
  /\ input = << <<"-", "q">>, Dash, <<"h", "i">> >>
  /\ args = <<Dash>>
  /\ key = <<>>
  /\ DOMAIN argv = {<<"q">>} /\ argv[<<"q">>] = << <<"h", "i">> >>

---------------------------------------------------------------------------
\* The option names a token announces whatever the parser state, when it is
\* taken before the terminator: the name of a long option, the key part of
\* a single-dash token with `=` that starts with a letter, and the leading
\* run of letters of any other single-dash token.
AnnouncedNames(s) ==
  IF IsLongNoEq(s) THEN {LongName(s)}
  ELSE IF IsLongEq(s) THEN {Slice(LongName(s), 0, Find(LongName(s), "="))}
  ELSE IF Len(s) >= 2 /\ s[1] = "-" /\ s[2] \in AsciiLetters
  THEN IF HasEq(s) THEN {Slice(s, 1, Find(s, "="))}
       ELSE {<<s[i]>> : i \in {j \in 2 .. Len(s) :
                                 \A h \in 2 .. j : s[h] \in AsciiLetters}}
  ELSE {}

\* C17: every option name announced before the terminator is a key of the
\* returned map: keys are never removed, a pending key that is replaced is
\* a key by then, a key pending at the end of the input is flushed with the
\* values it had (none if it was new), and every name announced by an input
\* token before the terminator is a key of the result.
C17_AnnouncedKeysReturned ==
  /\ [][pc = "parse" =>
          /\ DOMAIN argv \subseteq DOMAIN argv'
          /\ (key # <<>> /\ key' # key) => key[1] \in DOMAIN argv'
          /\ (pc' = "done" /\ key # <<>>) =>
               (key[1] \in DOMAIN argv' /\ argv'[key[1]] = Vals(argv, key[1]))]_vars
  /\ [](pc = "done" =>
          \A i \in 1 .. Len(input) :
            (\A j \in 1 .. i - 1 : input[j] # DashDash) =>
              AnnouncedNames(input[i]) \subseteq DOMAIN argv)

\* `hi -xvf`: f was pending when the input ended and is a key without
\* values, like x and v.
C17_Witness ==
  /\ pc = "done"
  /\ input = << <<"h", "i">>, <<"-", "x", "v", "f">> >>
  /\ key = << <<"f">> >>
  /\ DOMAIN argv = {<<"x">>, <<"v">>, <<"f">>}
  /\ argv[<<"f">>] = <<>>

\* C18: a key pending when the terminator is consumed never receives a value
\* from the tokens after it: each of them goes to the positional list and
\* leaves the option map and the pending key alone, and at the end of the
\* input the key is in the map with no value added.
C18_PendingAtTerminatorGetsNothing ==
  [][(pc = "parse" /\ dashdash /\ key # <<>>) =>
       /\ input' # input =>
            /\ args' = Append(args, Last(input'))
            /\ argv' = argv
            /\ key' = key
       /\ pc' = "done" =>
            /\ DOMAIN argv' = DOMAIN argv \cup {key[1]}
            /\ argv'[key[1]] = Vals(argv, key[1])
            /\ \A k \in DOMAIN argv : argv'[k] = argv[k]
            /\ args' = args]_vars

\* `--q -- hi` with q not boolean: hi is positional and q has no value.
C18_Witness ==
  /\ pc = "done"
  /\ input = << <<"-", "-", "q">>, DashDash, <<"h", "i">> >>
  /\ args = << <<"h", "i">> >>
  /\ DOMAIN argv = {<<"q">>} /\ argv[<<"q">>] = <<>>

---------------------------------------------------------------------------
\* A single-dash token without `=` that is scanned as a cluster of at least
\* two characters.
IsCluster(s) ==
  Len(s) >= 3 /\ s[1] = "-" /\ ~StartsWith(s, DashDash) /\ ~HasEq(s)

\* The token of this step is scanned as a cluster: the terminator has not
\* been seen and the token is not taken whole as the value of a pending key.
ScansCluster ==
  /\ TokenStep /\ ~dashdash
  /\ IsCluster(Last(input'))
  /\ ~(key # <<>> /\ IsNumericLead(Last(input')))

\* C15: when the last character of a cluster is in the boolean-name set and
\* the character before it is pending (the characters before the last are
\* letters, the one next to the last is not boolean), both are keys after
\* the token and no key is pending.
C15_BooleanLastEmptiesPending ==
  [][LET s == Last(input') n == Len(Last(input')) IN
     (/\ ScansCluster
      /\ \A i \in 2 .. n - 1 : s[i] \in AsciiLetters
      /\ <<s[n - 1]>> \notin boolean
      /\ <<s[n]>> \in boolean)
     => (/\ <<s[n - 1]>> \in DOMAIN argv'
         /\ <<s[n]>> \in DOMAIN argv'
         /\ key' = <<>>)]_vars

\* The position in the cluster s of the first character that is a digit or
\* not alphabetic while the character before it is pending, 0 if none: up to
\* it every character is scanned as a key, and one outside the boolean-name
\* set is pending when the next is read.
IsBreakAt(s, i, bool) ==
  /\ s[i] \notin AsciiLetters
  /\ <<s[i - 1]>> \notin bool
BreakPos(s, bool) ==
  IF \E i \in 3 .. Len(s) : IsBreakAt(s, i, bool)
  THEN CHOOSE i \in 3 .. Len(s) :
         /\ IsBreakAt(s, i, bool)
         /\ \A j \in 3 .. i - 1 : ~IsBreakAt(s, j, bool)
  ELSE 0

\* What the break at position i of the token does: the rest of the token is
\* the newest value of the key before it (appended to the values it had, when
\* no key was pending before the token), no key is pending, and no later
\* character of the token is a key.
BreakTakesRest(s, i) ==
  LET sk == <<s[i - 1]>> rest == SubSeq(s, i, Len(s)) IN
  /\ sk \in DOMAIN argv'
  /\ argv'[sk] # <<>> /\ Last(argv'[sk]) = rest
  /\ key = <<>> => argv'[sk] = Append(Vals(argv, sk), rest)
  /\ key' = <<>>
  /\ DOMAIN argv' \subseteq
       DOMAIN argv \cup {key[j] : j \in 1 .. Len(key)}
                   \cup {<<s[j]>> : j \in 2 .. i - 1}

\* C16 as stated: at every break position of a cluster the rest of the token
\* becomes one value of the pending key.
C16_BreakTakesRest ==
  [][LET s == Last(input') i == BreakPos(Last(input'), boolean) IN
     (ScansCluster /\ i # 0) => BreakTakesRest(s, i)]_vars

\* C16, amended: the same, except when the break character is the last of
\* the token and is in the boolean-name set.
C16_BreakTakesRestUnlessBooleanLast ==
  [][LET s == Last(input') i == BreakPos(Last(input'), boolean) IN
     (ScansCluster /\ i # 0 /\ ~(i = Len(s) /\ <<s[i]>> \in boolean))
       => BreakTakesRest(s, i)]_vars

\* q boolean, `-qr@4 -xn56`: r has the value @4 and n the value 56.
C16_Witness ==
  /\ pc = "parse"
  /\ boolean = {<<"q">>}
  /\ input = << <<"-", "q", "r", "@", "4">>, <<"-", "x", "n", "5", "6">> >>
  /\ key = <<>>
  /\ DOMAIN argv = {<<"q">>, <<"r">>, <<"x">>, <<"n">>}
  /\ argv[<<"r">>] = << <<"@", "4">> >>
  /\ argv[<<"n">>] = << <<"5", "6">> >>
  /\ argv[<<"q">>] = <<>> /\ argv[<<"x">>] = <<>>

\* C19 as stated: no key of the option map begins with `-`.
C19_NoKeyBeginsWithDash ==
  \A k \in DOMAIN argv : k = <<>> \/ k[1] # "-"

\* C19, amended: exactly the prefix is stripped.  A key that begins with `-`
\* is the name of a long option whose token has a third dash, or is the
\* character `-` of a short cluster right after a boolean character.
C19_DashKeyOnlyFromThirdDashOrAfterBoolean ==
  \A k \in DOMAIN argv :
    (k # <<>> /\ k[1] = "-") =>
      \E n \in 1 .. Len(input) :
        LET s == input[n] IN
        \/ (IsLongNoEq(s) /\ s[3] = "-" /\ k = LongName(s))
        \/ (IsCluster(s) /\ k = Dash
            /\ \E i \in 3 .. Len(s) : s[i] = "-" /\ <<s[i - 1]>> \in boolean)

\* q boolean, `---x -q-x hi`: the keys are -x, q, - and x, and x took hi.
C19_Witness ==
  /\ pc = "done"
  /\ boolean = {<<"q">>}
  /\ input = << <<"-", "-", "-", "x">>, <<"-", "q", "-", "x">>, <<"h", "i">> >>
  /\ DOMAIN argv = {<<"-", "x">>, <<"q">>, Dash, <<"x">>}
  /\ argv[<<"x">>] = << <<"h", "i">> >>

====
